---- MODULE Spec2Model ----
(***************************************************************************)
(* Two tutorial notebooks of examples-pse, each a straight-line script of  *)
(* cells run by its own kernel:                                            *)
(*   "mixer" : Examples/UnitModels/Operations/mixer_testing.ipynb          *)
(*   "hx"    : the heat exchanger 0D notebook (unnamed/part_000)           *)
(* A notebook is a sequence of statements; one action per statement kind.  *)
(* The modelling framework the cells call (unit models, degrees_of_freedom,*)
(* the solver) is outside the repository: its equation inventory and the   *)
(* solution of the square system are modelled from what the notebooks say  *)
(* about them; what a property package computes (temperatures, enthalpies, *)
(* areas) is an opaque value and an assertion on it may pass or fail.      *)
(***************************************************************************)
EXTENDS Integers, Sequences, FiniteSets, TLC

VARIABLES pc, units, fixed, val, py, inited, solves, halt

vars == <<pc, units, fixed, val, py, inited, solves, halt>>

Notebooks == {"mixer", "hx"}

\* How far (in whole units) a value the solver leaves behind may lie from the
\* solution when the solve did not converge or the system was not square.
MaxDrift == 1

-----------------------------------------------------------------------------
(* Values: python numbers as exact rationals a/b, b > 0; opaque values.    *)

Num(a, b) == [k |-> "num", a |-> a, b |-> b]
Whole(a) == Num(a, 1)
Ext == [k |-> "ext", a |-> 0, b |-> 1]
Unset == [k |-> "unset", a |-> 0, b |-> 1]
Htpx(T, P) == [k |-> "htpx", a |-> T, b |-> P]

IsNum(x) == x.k = "num"

Abs(i) == IF i < 0 THEN -i ELSE i

RECURSIVE Gcd(_, _)
Gcd(i, j) == IF j = 0 THEN i ELSE Gcd(j, i % j)

Norm(a, b) ==
    LET g == Gcd(Abs(a), b) IN IF g = 0 THEN Num(a, b) ELSE Num(a \div g, b \div g)

RAdd(x, y) == IF IsNum(x) /\ IsNum(y) THEN Norm(x.a * y.b + y.a * x.b, x.b * y.b) ELSE Ext
RSub(x, y) == IF IsNum(x) /\ IsNum(y) THEN Norm(x.a * y.b - y.a * x.b, x.b * y.b) ELSE Ext
RMul(x, y) == IF IsNum(x) /\ IsNum(y) THEN Norm(x.a * y.a, x.b * y.b) ELSE Ext
RDiv(x, y) ==
    IF IsNum(x) /\ IsNum(y) /\ y.a > 0 THEN Norm(x.a * y.b, x.b * y.a) ELSE Ext
RLeq(x, y) == x.a * y.b <= y.a * x.b
RMin(x, y) == IF IsNum(x) /\ IsNum(y) THEN (IF RLeq(x, y) THEN x ELSE y) ELSE Ext

RECURSIVE RSum(_)
RSum(s) == IF s = <<>> THEN Whole(0) ELSE RAdd(Head(s), RSum(Tail(s)))

RECURSIVE RMinSeq(_)
RMinSeq(s) ==
    IF s = <<>> THEN Ext
    ELSE IF Len(s) = 1 THEN (IF IsNum(s[1]) THEN s[1] ELSE Ext)
    ELSE RMin(Head(s), RMinSeq(Tail(s)))

\* pytest.approx(e, abs=tol): |v - e| <= tol
Approx(v, e, tol) == Abs(v.a * e.b - e.a * v.b) * tol.b <= tol.a * v.b * e.b

-----------------------------------------------------------------------------
(* Statements of a notebook.                                               *)

\* a variable of a unit reached through a port, a state block, or the unit
PortVar(u, p, v, i) == [ref |-> "port", unit |-> u, at |-> p, var |-> v, idx |-> i]
BlockVar(u, b, v, i) == [ref |-> "block", unit |-> u, at |-> b, var |-> v, idx |-> i]
UnitVar(u, v, i) == BlockVar(u, "", v, i)
PyRef(n) == [ref |-> "py", unit |-> "", at |-> "", var |-> n, idx |-> ""]
Lit(x) == [ref |-> "lit", unit |-> "", at |-> "", var |-> "", idx |-> "", value |-> x]

\* m.fs.<u> = <kind>(num_inlets=n, inlet_list=names, momentum_mixing_type=mm)
Construct(u, kind, n, names, mm) ==
    [op |-> "construct", unit |-> u, kind |-> kind, num_inlets |-> n,
     inlet_list |-> names, mm |-> mm]
Dof(target, dest) == [op |-> "dof", target |-> target, dest |-> dest]
AssertEq(name, lit) == [op |-> "assert_eq", name |-> name, lit |-> lit]
Fix(x, value) == [op |-> "fix", x |-> x, value |-> value]
Unfix(x) == [op |-> "unfix", x |-> x]
Initialize(u) == [op |-> "initialize", unit |-> u]
Solve(target, dest) == [op |-> "solve", target |-> target, dest |-> dest]
AssertTC(name) == [op |-> "assert_status", name |-> name, field |-> "tc", lit |-> "optimal"]
AssertST(name) == [op |-> "assert_status", name |-> name, field |-> "st", lit |-> "ok"]
Assign(dest, x) == [op |-> "assign", dest |-> dest, x |-> x]
Mul(dest, x, y) == [op |-> "mul", dest |-> dest, x |-> x, y |-> y]
\* assert terms[1] - terms[2] - ... == pytest.approx(e, abs=tol)
AssertApprox(terms, e, tol) == [op |-> "assert_approx", terms |-> terms, e |-> e, tol |-> tol]
Report(u) == [op |-> "report", unit |-> u]


-----------------------------------------------------------------------------
(* mixer_testing.ipynb, cell by cell.                                      *)

MCase1Construct ==
    << Construct("mixer_1", "Mixer", 2, <<>>, "minimize"),
       Dof("m", "DOF_initial") >>

MCase1AssertInit == << AssertEq("DOF_initial", 10) >>

\* the inlet_2 pressure line fixes inlet_1's pressure again
MCase1Fix_PressureTwice ==
    << Fix(PortVar("mixer_1", "inlet_1", "flow_mol", ""), Lit(Whole(100))),
       Fix(PortVar("mixer_1", "inlet_1", "mole_frac_comp", "benzene"), Lit(Whole(1))),
       Fix(PortVar("mixer_1", "inlet_1", "mole_frac_comp", "toluene"), Lit(Whole(0))),
       Fix(PortVar("mixer_1", "inlet_1", "pressure", ""), Lit(Whole(101325))),
       Fix(PortVar("mixer_1", "inlet_1", "temperature", ""), Lit(Whole(353))),
       Fix(PortVar("mixer_1", "inlet_2", "flow_mol", ""), Lit(Whole(100))),
       Fix(PortVar("mixer_1", "inlet_2", "mole_frac_comp", "benzene"), Lit(Whole(0))),
       Fix(PortVar("mixer_1", "inlet_2", "mole_frac_comp", "toluene"), Lit(Whole(1))),
       Fix(PortVar("mixer_1", "inlet_1", "pressure", ""), Lit(Whole(202650))),
       Fix(PortVar("mixer_1", "inlet_2", "temperature", ""), Lit(Whole(356))),
       Dof("m", "DOF_final") >>

\* both inlets fixed at 202650 Pa
MCase1Fix_SamePressure ==
    << Fix(PortVar("mixer_1", "inlet_1", "flow_mol", ""), Lit(Whole(100))),
       Fix(PortVar("mixer_1", "inlet_1", "mole_frac_comp", "benzene"), Lit(Whole(1))),
       Fix(PortVar("mixer_1", "inlet_1", "mole_frac_comp", "toluene"), Lit(Whole(0))),
       Fix(PortVar("mixer_1", "inlet_1", "pressure", ""), Lit(Whole(202650))),
       Fix(PortVar("mixer_1", "inlet_1", "temperature", ""), Lit(Whole(353))),
       Fix(PortVar("mixer_1", "inlet_2", "flow_mol", ""), Lit(Whole(100))),
       Fix(PortVar("mixer_1", "inlet_2", "mole_frac_comp", "benzene"), Lit(Whole(0))),
       Fix(PortVar("mixer_1", "inlet_2", "mole_frac_comp", "toluene"), Lit(Whole(1))),
       Fix(PortVar("mixer_1", "inlet_2", "pressure", ""), Lit(Whole(202650))),
       Fix(PortVar("mixer_1", "inlet_2", "temperature", ""), Lit(Whole(356))),
       Dof("m", "DOF_final") >>

MCase1Fix ==
    << Fix(PortVar("mixer_1", "inlet_1", "flow_mol", ""), Lit(Whole(100))),
       Fix(PortVar("mixer_1", "inlet_1", "mole_frac_comp", "benzene"), Lit(Whole(1))),
       Fix(PortVar("mixer_1", "inlet_1", "mole_frac_comp", "toluene"), Lit(Whole(0))),
       Fix(PortVar("mixer_1", "inlet_1", "pressure", ""), Lit(Whole(101325))),
       Fix(PortVar("mixer_1", "inlet_1", "temperature", ""), Lit(Whole(353))),
       Fix(PortVar("mixer_1", "inlet_2", "flow_mol", ""), Lit(Whole(100))),
       Fix(PortVar("mixer_1", "inlet_2", "mole_frac_comp", "benzene"), Lit(Whole(0))),
       Fix(PortVar("mixer_1", "inlet_2", "mole_frac_comp", "toluene"), Lit(Whole(1))),
       Fix(PortVar("mixer_1", "inlet_2", "pressure", ""), Lit(Whole(202650))),
       Fix(PortVar("mixer_1", "inlet_2", "temperature", ""), Lit(Whole(356))),
       Dof("m", "DOF_final") >>

MCase1AssertFinal == << AssertEq("DOF_final", 0) >>

MCase1Initialize == << Initialize("mixer_1") >>

MCase1Solve == << Solve("m", "result") >>

MCase1AssertStatus == << AssertTC("result"), AssertST("result") >>

MCase1Report == << Report("mixer_1") >>

MCase1Energy ==
    << Assign("molflow_1", PortVar("mixer_1", "inlet_1", "flow_mol", "")),
       Assign("molflow_2", PortVar("mixer_1", "inlet_2", "flow_mol", "")),
       Assign("benzene_1", PortVar("mixer_1", "inlet_1", "mole_frac_comp", "benzene")),
       Assign("toluene_2", PortVar("mixer_1", "inlet_2", "mole_frac_comp", "toluene")),
       Mul("total_enthalpy_in1", PyRef("molflow_1"),
           BlockVar("mixer_1", "inlet_1_state", "enth_mol_phase", "Liq")),
       Mul("total_enthalpy_in2", PyRef("molflow_2"),
           BlockVar("mixer_1", "inlet_2_state", "enth_mol_phase", "Liq")),
       Assign("molar_enthalpy_out",
              BlockVar("mixer_1", "mixed_state", "enth_mol_phase", "Liq")),
       Assign("mole_flow_out", PortVar("mixer_1", "outlet", "flow_mol", "")),
       Mul("total_enthalpy_out", PyRef("mole_flow_out"), PyRef("molar_enthalpy_out")) >>

MCase1Check ==
    << AssertApprox(<<PyRef("mole_flow_out")>>, Whole(200), Num(1, 1000)),
       AssertApprox(<<PortVar("mixer_1", "outlet", "mole_frac_comp", "benzene")>>,
                    Num(1, 2), Num(1, 1000)),
       AssertApprox(<<PortVar("mixer_1", "outlet", "mole_frac_comp", "toluene")>>,
                    Num(1, 2), Num(1, 1000)),
       AssertApprox(<<PortVar("mixer_1", "outlet", "temperature", "")>>,
                    Num(35461, 100), Num(1, 100)),
       AssertApprox(<<PortVar("mixer_1", "outlet", "pressure", "")>>,
                    Whole(101325), Whole(1)),
       AssertApprox(<<PyRef("total_enthalpy_out"), PyRef("total_enthalpy_in1"),
                      PyRef("total_enthalpy_in2")>>, Whole(0), Num(1, 100)) >>

\* a misspelt inlet name in inlet_list
MCase2Construct_Typo ==
    << Construct("mixer_2", "Mixer", 0, <<"benzene_inlet", "toluene_inet">>, "equality") >>

MCase2Construct ==
    << Construct("mixer_2", "Mixer", 0, <<"benzene_inlet", "toluene_inlet">>, "equality") >>

MCase2Dof == << Dof("mixer_2", "DOF_init") >>

MCase2AssertInit == << AssertEq("DOF_init", 9) >>

\* the pressure of toluene_inlet is fixed as well, as in case 1
MCase2Fix_BothPressures ==
    << Fix(PortVar("mixer_2", "benzene_inlet", "flow_mol", ""), Lit(Whole(100))),
       Fix(PortVar("mixer_2", "benzene_inlet", "mole_frac_comp", "benzene"), Lit(Whole(1))),
       Fix(PortVar("mixer_2", "benzene_inlet", "mole_frac_comp", "toluene"), Lit(Whole(0))),
       Fix(PortVar("mixer_2", "benzene_inlet", "pressure", ""), Lit(Whole(101325))),
       Fix(PortVar("mixer_2", "benzene_inlet", "temperature", ""), Lit(Whole(353))),
       Fix(PortVar("mixer_2", "toluene_inlet", "flow_mol", ""), Lit(Whole(100))),
       Fix(PortVar("mixer_2", "toluene_inlet", "mole_frac_comp", "benzene"), Lit(Whole(0))),
       Fix(PortVar("mixer_2", "toluene_inlet", "mole_frac_comp", "toluene"), Lit(Whole(1))),
       Fix(PortVar("mixer_2", "toluene_inlet", "pressure", ""), Lit(Whole(202650))),
       Fix(PortVar("mixer_2", "toluene_inlet", "temperature", ""), Lit(Whole(356))),
       Dof("mixer_2", "DOF_final") >>

\* the pressure of benzene_inlet fixed at the other stream's 202650 Pa
MCase2Fix_OtherPressure ==
    << Fix(PortVar("mixer_2", "benzene_inlet", "flow_mol", ""), Lit(Whole(100))),
       Fix(PortVar("mixer_2", "benzene_inlet", "mole_frac_comp", "benzene"), Lit(Whole(1))),
       Fix(PortVar("mixer_2", "benzene_inlet", "mole_frac_comp", "toluene"), Lit(Whole(0))),
       Fix(PortVar("mixer_2", "benzene_inlet", "pressure", ""), Lit(Whole(202650))),
       Fix(PortVar("mixer_2", "benzene_inlet", "temperature", ""), Lit(Whole(353))),
       Fix(PortVar("mixer_2", "toluene_inlet", "flow_mol", ""), Lit(Whole(100))),
       Fix(PortVar("mixer_2", "toluene_inlet", "mole_frac_comp", "benzene"), Lit(Whole(0))),
       Fix(PortVar("mixer_2", "toluene_inlet", "mole_frac_comp", "toluene"), Lit(Whole(1))),
       Fix(PortVar("mixer_2", "toluene_inlet", "temperature", ""), Lit(Whole(356))),
       Dof("mixer_2", "DOF_final") >>

\* toluene_inlet flow fixed at 10 instead of 100
MCase2Fix_FlowTypo ==
    << Fix(PortVar("mixer_2", "benzene_inlet", "flow_mol", ""), Lit(Whole(100))),
       Fix(PortVar("mixer_2", "benzene_inlet", "mole_frac_comp", "benzene"), Lit(Whole(1))),
       Fix(PortVar("mixer_2", "benzene_inlet", "mole_frac_comp", "toluene"), Lit(Whole(0))),
       Fix(PortVar("mixer_2", "benzene_inlet", "pressure", ""), Lit(Whole(101325))),
       Fix(PortVar("mixer_2", "benzene_inlet", "temperature", ""), Lit(Whole(353))),
       Fix(PortVar("mixer_2", "toluene_inlet", "flow_mol", ""), Lit(Whole(10))),
       Fix(PortVar("mixer_2", "toluene_inlet", "mole_frac_comp", "benzene"), Lit(Whole(0))),
       Fix(PortVar("mixer_2", "toluene_inlet", "mole_frac_comp", "toluene"), Lit(Whole(1))),
       Fix(PortVar("mixer_2", "toluene_inlet", "temperature", ""), Lit(Whole(356))),
       Dof("mixer_2", "DOF_final") >>

MCase2Fix ==
    << Fix(PortVar("mixer_2", "benzene_inlet", "flow_mol", ""), Lit(Whole(100))),
       Fix(PortVar("mixer_2", "benzene_inlet", "mole_frac_comp", "benzene"), Lit(Whole(1))),
       Fix(PortVar("mixer_2", "benzene_inlet", "mole_frac_comp", "toluene"), Lit(Whole(0))),
       Fix(PortVar("mixer_2", "benzene_inlet", "pressure", ""), Lit(Whole(101325))),
       Fix(PortVar("mixer_2", "benzene_inlet", "temperature", ""), Lit(Whole(353))),
       Fix(PortVar("mixer_2", "toluene_inlet", "flow_mol", ""), Lit(Whole(100))),
       Fix(PortVar("mixer_2", "toluene_inlet", "mole_frac_comp", "benzene"), Lit(Whole(0))),
       Fix(PortVar("mixer_2", "toluene_inlet", "mole_frac_comp", "toluene"), Lit(Whole(1))),
       Fix(PortVar("mixer_2", "toluene_inlet", "temperature", ""), Lit(Whole(356))),
       Dof("mixer_2", "DOF_final") >>

\* the initialize cell of case 2 is skipped
MCase2Initialize_Skipped == << >>

MCase2Initialize == << Initialize("mixer_2") >>

MCase2Solve == << Solve("mixer_2", "result") >>

MCase2AssertStatus == << AssertTC("result"), AssertST("result") >>

MCase2Report == << Report("mixer_2") >>

MCase2Check ==
    << AssertApprox(<<PortVar("mixer_2", "outlet", "flow_mol", "")>>,
                    Whole(200), Num(1, 100)),
       AssertApprox(<<PortVar("mixer_2", "outlet", "mole_frac_comp", "benzene")>>,
                    Num(1, 2), Num(1, 1000)),
       AssertApprox(<<PortVar("mixer_2", "outlet", "mole_frac_comp", "toluene")>>,
                    Num(1, 2), Num(1, 1000)),
       AssertApprox(<<PortVar("mixer_2", "outlet", "temperature", "")>>,
                    Num(35461, 100), Num(1, 100)),
       AssertApprox(<<PortVar("mixer_2", "outlet", "pressure", "")>>,
                    Whole(101325), Whole(1)) >>

MixerCase1 ==
    MCase1Construct \o MCase1AssertInit \o MCase1Fix \o MCase1AssertFinal
    \o MCase1Initialize \o MCase1Solve \o MCase1AssertStatus \o MCase1Report
    \o MCase1Energy \o MCase1Check

MixerCase2 ==
    MCase2Construct \o MCase2Dof \o MCase2AssertInit \o MCase2Fix
    \o MCase2Initialize \o MCase2Solve \o MCase2AssertStatus \o MCase2Report
    \o MCase2Check

MixerProgram == MixerCase1 \o MixerCase2

-----------------------------------------------------------------------------
(* The heat exchanger notebook, cell by cell.                              *)

HConstruct ==
    << Construct("heat_exchanger", "HeatExchanger", 0, <<>>, ""),
       Dof("m", "DOF_initial") >>

HAssertInit == << AssertEq("DOF_initial", 10) >>

HShellFix ==
    << Assign("h", Lit(Htpx(450, 101325))),
       Fix(PortVar("heat_exchanger", "shell_inlet", "flow_mol", ""), Lit(Whole(100))),
       Fix(PortVar("heat_exchanger", "shell_inlet", "pressure", ""), Lit(Whole(101325))),
       Fix(PortVar("heat_exchanger", "shell_inlet", "enth_mol", ""), PyRef("h")),
       Dof("m", "DOF_initial") >>

\* the tube inlet temperature is left free
HTubeFix_NoTemperature ==
    << Fix(PortVar("heat_exchanger", "tube_inlet", "flow_mol", ""), Lit(Whole(250))),
       Fix(PortVar("heat_exchanger", "tube_inlet", "mole_frac_comp", "benzene"),
           Lit(Num(4, 10))),
       Fix(PortVar("heat_exchanger", "tube_inlet", "mole_frac_comp", "toluene"),
           Lit(Num(6, 10))),
       Fix(PortVar("heat_exchanger", "tube_inlet", "pressure", ""), Lit(Whole(101325))),
       Dof("m", "DOF_final") >>

HTubeFix ==
    << Fix(PortVar("heat_exchanger", "tube_inlet", "flow_mol", ""), Lit(Whole(250))),
       Fix(PortVar("heat_exchanger", "tube_inlet", "mole_frac_comp", "benzene"),
           Lit(Num(4, 10))),
       Fix(PortVar("heat_exchanger", "tube_inlet", "mole_frac_comp", "toluene"),
           Lit(Num(6, 10))),
       Fix(PortVar("heat_exchanger", "tube_inlet", "pressure", ""), Lit(Whole(101325))),
       Fix(PortVar("heat_exchanger", "tube_inlet", "temperature", ""), Lit(Whole(350))),
       Dof("m", "DOF_final") >>

HOption1Fix ==
    << Fix(UnitVar("heat_exchanger", "area", ""), Lit(Whole(50))),
       Fix(UnitVar("heat_exchanger", "overall_heat_transfer_coefficient", ""),
           Lit(Whole(500))),
       Dof("m", "DOF_final") >>

HAssertFinal == << AssertEq("DOF_final", 0) >>

HOption1Solve ==
    << Initialize("heat_exchanger"),
       Solve("m", "solve_status"),
       Report("heat_exchanger") >>

HOption1Check ==
    << AssertTC("solve_status"),
       AssertST("solve_status"),
       AssertApprox(<<BlockVar("heat_exchanger", "shell.properties_out", "temperature", "")>>,
                    Num(37313, 100), Num(1, 100)),
       AssertApprox(<<BlockVar("heat_exchanger", "tube.properties_out", "temperature", "")>>,
                    Num(36924, 100), Num(1, 100)) >>

\* the overall heat transfer coefficient is unfixed instead of the area
HOption2Fix_UnfixU ==
    << Unfix(UnitVar("heat_exchanger", "overall_heat_transfer_coefficient", "")),
       Fix(PortVar("heat_exchanger", "shell_outlet", "enth_mol", ""),
           Lit(Htpx(360, 101325))),
       Dof("m", "") >>

\* area stays fixed when the shell outlet enthalpy is fixed
HOption2Fix_NoUnfix ==
    << Fix(PortVar("heat_exchanger", "shell_outlet", "enth_mol", ""),
           Lit(Htpx(360, 101325))),
       Dof("m", "") >>

HOption2Fix ==
    << Unfix(UnitVar("heat_exchanger", "area", "")),
       Fix(PortVar("heat_exchanger", "shell_outlet", "enth_mol", ""),
           Lit(Htpx(360, 101325))),
       Dof("m", "") >>

HOption2Solve ==
    << Solve("m", "result"),
       Report("heat_exchanger") >>

HOption2Check ==
    << AssertTC("solve_status"),
       AssertST("solve_status"),
       AssertApprox(<<UnitVar("heat_exchanger", "area", "")>>,
                    Num(20026, 100), Num(1, 100)),
       AssertApprox(<<BlockVar("heat_exchanger", "tube.properties_out", "temperature", "")>>,
                    Num(37127, 100), Num(1, 100)) >>

HxProgram ==
    HConstruct \o HAssertInit \o HShellFix \o HTubeFix \o HOption1Fix \o HAssertFinal
    \o HOption1Solve \o HOption1Check \o HOption2Fix \o HOption2Solve \o HOption2Check

Program(nb) == IF nb = "mixer" THEN MixerProgram ELSE HxProgram

-----------------------------------------------------------------------------
(* The framework objects the cells build: a unit is a record, a variable   *)
(* an id <<unit, block, name, index>>, a constraint an id                  *)
(* <<unit, name, index>>.                                                  *)

Components == {"benzene", "toluene"}

\* "inlet_1", "inlet_2" and so on when only the number of inlets is given
InletNames(n, names) ==
    IF names # <<>> THEN names ELSE [i \in 1..n |-> "inlet_" \o ToString(i)]

MakeUnit(st) ==
    [name |-> st.unit, kind |-> st.kind,
     inlets |-> IF st.kind = "Mixer" THEN InletNames(st.num_inlets, st.inlet_list) ELSE <<>>,
     mm |-> st.mm]

Range(f) == {f[i] : i \in DOMAIN f}

Ports(u) ==
    IF u.kind = "Mixer" THEN Range(u.inlets) \cup {"outlet"}
    ELSE {"shell_inlet", "shell_outlet", "tube_inlet", "tube_outlet"}

\* the state block a port refers to
PortBlock(u, p) ==
    IF u.kind = "Mixer" THEN (IF p = "outlet" THEN "mixed_state" ELSE p \o "_state")
    ELSE CASE p = "shell_inlet" -> "shell.properties_in"
           [] p = "shell_outlet" -> "shell.properties_out"
           [] p = "tube_inlet" -> "tube.properties_in"
           [] OTHER -> "tube.properties_out"

Blocks(u) == {PortBlock(u, p) : p \in Ports(u)}

\* state variables of a block, as <<name, index>>: flow, composition, pressure and
\* temperature for the benzene-toluene packages; flow, pressure and molar enthalpy
\* for the steam package on the shell side
StateVars(u, b) ==
    IF u.kind = "HeatExchanger" /\ b \in {"shell.properties_in", "shell.properties_out"}
    THEN {<<"flow_mol", "">>, <<"pressure", "">>, <<"enth_mol", "">>}
    ELSE {<<"flow_mol", "">>, <<"pressure", "">>, <<"temperature", "">>}
         \cup {<<"mole_frac_comp", c>> : c \in Components}

StateVarIds(u) ==
    UNION {{<<u.name, b, v[1], v[2]>> : v \in StateVars(u, b)} : b \in Blocks(u)}

\* variables besides the state variables: the liquid molar enthalpy of each mixer
\* state, the running minimum pressures of a "minimize" mixer; area, overall heat
\* transfer coefficient, the two heat duties and the end temperature differences
\* of a heat exchanger
ExtraVars(u) ==
    IF u.kind = "Mixer"
    THEN {<<u.name, b, "enth_mol_phase", "Liq">> : b \in Blocks(u)}
         \cup (IF u.mm = "minimize"
               THEN {<<u.name, "", "minimum_pressure", i>> : i \in Range(u.inlets)}
               ELSE {})
    ELSE {<<u.name, "", "area", "">>,
          <<u.name, "", "overall_heat_transfer_coefficient", "">>,
          <<u.name, "shell", "heat", "">>, <<u.name, "tube", "heat", "">>,
          <<u.name, "", "delta_temperature_in", "">>,
          <<u.name, "", "delta_temperature_out", "">>}

UnitVars(u) == StateVarIds(u) \cup ExtraVars(u)

\* quantities that can be read but are no variables of the equation system
Derived(u) ==
    IF u.kind = "HeatExchanger"
    THEN {<<u.name, b, "temperature", "">> :
              b \in {"shell.properties_in", "shell.properties_out"}}
    ELSE {}

\* momentum mixing: "minimize" defines each running minimum and sets the mixed
\* pressure to the last one; "equality" equates every inlet pressure with the
\* mixed pressure
MomentumCons(u) ==
    IF u.mm = "minimize"
    THEN {<<u.name, "minimum_pressure_constraint", i>> : i \in Range(u.inlets)}
         \cup {<<u.name, "mixture_pressure", "">>}
    ELSE {<<u.name, "pressure_equality_constraints", i>> : i \in Range(u.inlets)}

UnitCons(u) ==
    IF u.kind = "Mixer"
    THEN {<<u.name, "material_mixing_equations", c>> : c \in Components}
         \cup {<<u.name, "enthalpy_mixing_equations", "">>,
               <<u.name, "mixed_state.sum_mole_frac_out", "">>}
         \cup {<<u.name, "eq_enth_mol_phase", b>> : b \in Blocks(u)}
         \cup MomentumCons(u)
    ELSE {<<u.name, "shell.material_balances", "">>,
          <<u.name, "shell.enthalpy_balances", "">>,
          <<u.name, "shell.pressure_balance", "">>,
          <<u.name, "tube.enthalpy_balances", "">>,
          <<u.name, "tube.pressure_balance", "">>,
          <<u.name, "tube.properties_out.sum_mole_frac_out", "">>,
          <<u.name, "unit_heat_balance", "">>,
          <<u.name, "heat_transfer_equation", "">>,
          <<u.name, "delta_temperature_in_equation", "">>,
          <<u.name, "delta_temperature_out_equation", "">>}
         \cup {<<u.name, "tube.material_balances", c>> : c \in Components}

\* the units a block expression names: "m" is the whole model
TargetUnits(nb, target) ==
    IF target = "m" THEN units[nb] ELSE {u \in units[nb] : u.name = target}

\* DOF = number of unfixed variables - number of constraints
DegreesOfFreedom(nb, target) ==
    LET us == TargetUnits(nb, target) IN
    Cardinality(UNION {UnitVars(u) : u \in us} \ fixed[nb])
      - Cardinality(UNION {UnitCons(u) : u \in us})

NoId == <<"", "", "", "">>

\* the variable id an expression of a cell denotes, NoId when the attribute
\* lookup fails
Resolve(nb, x) ==
    LET us == {u \in units[nb] : u.name = x.unit} IN
    IF us = {} THEN NoId
    ELSE LET u == CHOOSE w \in us : TRUE IN
         IF x.ref = "port"
         THEN (IF x.at \in Ports(u) /\ <<x.var, x.idx>> \in StateVars(u, PortBlock(u, x.at))
               THEN <<u.name, PortBlock(u, x.at), x.var, x.idx>> ELSE NoId)
         ELSE (IF <<u.name, x.at, x.var, x.idx>> \in UnitVars(u) \cup Derived(u)
               THEN <<u.name, x.at, x.var, x.idx>> ELSE NoId)

\* "none", or the exception evaluating x raises
EvalError(nb, x) ==
    CASE x.ref = "lit" -> "none"
      [] x.ref = "py" -> IF x.var \in DOMAIN py[nb] THEN "none" ELSE "NameError"
      [] OTHER -> IF Resolve(nb, x) = NoId THEN "AttributeError" ELSE "none"

Eval(nb, x) ==
    CASE x.ref = "lit" -> x.value
      [] x.ref = "py" -> py[nb][x.var]
      [] OTHER -> IF Resolve(nb, x) \in DOMAIN val[nb] THEN val[nb][Resolve(nb, x)] ELSE Ext

Put(f, key, v) == [x \in DOMAIN f \cup {key} |-> IF x = key THEN v ELSE f[x]]

-----------------------------------------------------------------------------
(* Execution of a notebook.                                                *)

Cur(nb) == Program(nb)[pc[nb]]
Running(nb) == halt[nb] = "none" /\ pc[nb] <= Len(Program(nb))
At(nb, op) == Running(nb) /\ Cur(nb).op = op

Advance(nb) == pc' = [pc EXCEPT ![nb] = @ + 1] /\ UNCHANGED halt
Raise(nb, e) ==
    /\ halt' = [halt EXCEPT ![nb] = e]
    /\ UNCHANGED <<pc, units, fixed, val, py, inited, solves>>

Init ==
    /\ pc = [nb \in Notebooks |-> 1]
    /\ units = [nb \in Notebooks |-> {}]
    /\ fixed = [nb \in Notebooks |-> {}]
    /\ val = [nb \in Notebooks |-> <<>>]
    /\ py = [nb \in Notebooks |-> <<>>]
    /\ inited = [nb \in Notebooks |-> {}]
    /\ solves = [nb \in Notebooks |-> <<>>]
    /\ halt = [nb \in Notebooks |-> "none"]

\* m.fs.<unit> = Mixer(...) / HeatExchanger(...)
DoConstruct(nb) ==
    /\ At(nb, "construct")
    /\ LET u == MakeUnit(Cur(nb)) IN
       /\ units' = [units EXCEPT ![nb] = {w \in @ : w.name # u.name} \cup {u}]
       /\ val' = [val EXCEPT ![nb] =
                    [id \in {i \in DOMAIN @ : i[1] # u.name} \cup UnitVars(u) |->
                        IF id \in UnitVars(u) THEN Unset ELSE @[id]]]
       /\ fixed' = [fixed EXCEPT ![nb] = {i \in @ : i[1] # u.name}]
       /\ inited' = [inited EXCEPT ![nb] = @ \ {u.name}]
    /\ Advance(nb)
    /\ UNCHANGED <<py, solves>>

\* <dest> = degrees_of_freedom(<target>)
DoDof(nb) ==
    /\ At(nb, "dof")
    /\ LET st == Cur(nb) IN
       IF TargetUnits(nb, st.target) = {} /\ st.target # "m"
       THEN Raise(nb, "AttributeError")
       ELSE /\ py' = [py EXCEPT ![nb] =
                        IF st.dest = "" THEN @
                        ELSE Put(@, st.dest, DegreesOfFreedom(nb, st.target))]
            /\ Advance(nb)
            /\ UNCHANGED <<units, fixed, val, inited, solves>>

\* assert <name> == <lit>
DoAssertEq(nb) ==
    /\ At(nb, "assert_eq")
    /\ LET st == Cur(nb) IN
       IF st.name \notin DOMAIN py[nb] THEN Raise(nb, "NameError")
       ELSE IF py[nb][st.name] # st.lit THEN Raise(nb, "AssertionError")
       ELSE Advance(nb) /\ UNCHANGED <<units, fixed, val, py, inited, solves>>

\* <x>.fix(<value>)
DoFix(nb) ==
    /\ At(nb, "fix")
    /\ LET st == Cur(nb)
           id == Resolve(nb, st.x) IN
       IF id = NoId \/ id \notin DOMAIN val[nb] THEN Raise(nb, "AttributeError")
       ELSE IF EvalError(nb, st.value) # "none" THEN Raise(nb, EvalError(nb, st.value))
       ELSE /\ fixed' = [fixed EXCEPT ![nb] = @ \cup {id}]
            /\ val' = [val EXCEPT ![nb][id] = Eval(nb, st.value)]
            /\ Advance(nb)
            /\ UNCHANGED <<units, py, inited, solves>>

\* <x>.unfix()
DoUnfix(nb) ==
    /\ At(nb, "unfix")
    /\ LET id == Resolve(nb, Cur(nb).x) IN
       IF id = NoId \/ id \notin DOMAIN val[nb] THEN Raise(nb, "AttributeError")
       ELSE /\ fixed' = [fixed EXCEPT ![nb] = @ \ {id}]
            /\ Advance(nb)
            /\ UNCHANGED <<units, val, py, inited, solves>>

\* m.fs.<unit>.initialize(): leaves initial guesses in the free variables
DoInitialize(nb) ==
    /\ At(nb, "initialize")
    /\ LET us == TargetUnits(nb, Cur(nb).unit) IN
       IF us = {} THEN Raise(nb, "AttributeError")
       ELSE /\ inited' = [inited EXCEPT ![nb] = @ \cup {Cur(nb).unit}]
            /\ val' = [val EXCEPT ![nb] =
                         [id \in DOMAIN @ |->
                            IF id[1] = Cur(nb).unit /\ id \notin fixed[nb]
                            THEN Ext ELSE @[id]]]
            /\ Advance(nb)
            /\ UNCHANGED <<units, fixed, py, solves>>

-----------------------------------------------------------------------------
(* The solution of a unit's equations, as far as the notebooks state them. *)

InletVal(nb, u, i, v, idx) == val[nb][<<u.name, u.inlets[i] \o "_state", v, idx>>]

\* material mixing: the mixed flow of a component is the sum over the inlets
MixedCompFlow(nb, u, c) ==
    RSum([i \in DOMAIN u.inlets |->
            RMul(InletVal(nb, u, i, "flow_mol", ""), InletVal(nb, u, i, "mole_frac_comp", c))])

MixedFlow(nb, u) == RSum([i \in DOMAIN u.inlets |-> InletVal(nb, u, i, "flow_mol", "")])

MixedFrac(nb, u, c) == RDiv(MixedCompFlow(nb, u, c), MixedFlow(nb, u))

FixedPressures(nb, u) == {id \in fixed[nb] : id[1] = u.name /\ id[3] = "pressure"}

\* "minimize": the minimum of the inlet pressures; "equality": the one pressure
\* that was fixed
MixedPressure(nb, u) ==
    IF u.mm = "minimize"
    THEN RMinSeq([i \in DOMAIN u.inlets |-> InletVal(nb, u, i, "pressure", "")])
    ELSE IF FixedPressures(nb, u) = {} THEN Ext
    ELSE val[nb][CHOOSE id \in FixedPressures(nb, u) : TRUE]

InletIndex(u, name) == CHOOSE i \in DOMAIN u.inlets : u.inlets[i] = name

Solution(nb, u, id) ==
    IF u.kind # "Mixer" THEN Ext
    ELSE CASE id[3] = "minimum_pressure" ->
                RMinSeq([i \in 1..InletIndex(u, id[4]) |-> InletVal(nb, u, i, "pressure", "")])
           [] id[3] = "pressure" -> MixedPressure(nb, u)
           [] id[2] = "mixed_state" /\ id[3] = "flow_mol" -> MixedFlow(nb, u)
           [] id[2] = "mixed_state" /\ id[3] = "mole_frac_comp" -> MixedFrac(nb, u, id[4])
           [] OTHER -> Ext

InletSpecs(u) ==
    {<<u.name, u.inlets[i] \o "_state", v[1], v[2]>> :
        i \in DOMAIN u.inlets,
        v \in {<<"flow_mol", "">>, <<"temperature", "">>}
              \cup {<<"mole_frac_comp", c>> : c \in Components}}

InletPressures(u) == {<<u.name, u.inlets[i] \o "_state", "pressure", "">> : i \in DOMAIN u.inlets}

\* a square system whose fixed variables determine the rest
WellPosed(nb, u) ==
    /\ DegreesOfFreedom(nb, u.name) = 0
    /\ u.kind = "Mixer" =>
         /\ InletSpecs(u) \subseteq fixed[nb]
         /\ IF u.mm = "minimize" THEN InletPressures(u) \subseteq fixed[nb]
            ELSE Cardinality(FixedPressures(nb, u)) = 1

TermConds == {"optimal", "infeasible", "maxIterations"}
Statuses == {"ok", "warning"}

Converged(r) == r.tc = "optimal" /\ r.st = "ok"

Drift(v, k) == IF IsNum(v) THEN RAdd(v, Whole(k)) ELSE v

\* <dest> = opt.solve(<target>)
DoSolve(nb) ==
    /\ At(nb, "solve")
    /\ LET st == Cur(nb)
           us == TargetUnits(nb, st.target) IN
       IF us = {} THEN Raise(nb, "AttributeError")
       ELSE \E tc \in TermConds, stt \in Statuses, k \in -MaxDrift..MaxDrift :
            /\ (tc = "optimal" /\ stt = "ok" /\ \A u \in us : WellPosed(nb, u)) => k = 0
            /\ val' = [val EXCEPT ![nb] =
                         [id \in DOMAIN @ |->
                            IF id \notin fixed[nb] /\ \E u \in us : u.name = id[1]
                            THEN Drift(Solution(nb, CHOOSE u \in us : u.name = id[1], id), k)
                            ELSE @[id]]]
            /\ solves' = [solves EXCEPT ![nb] =
                            Append(@, [target |-> st.target, tc |-> tc, st |-> stt,
                                       units |-> {u.name : u \in us},
                                       fixed |-> fixed[nb],
                                       dof |-> DegreesOfFreedom(nb, st.target),
                                       ready |-> {u.name : u \in us} \subseteq inited[nb],
                                       at |-> pc[nb]])]
            /\ py' = [py EXCEPT ![nb] = Put(@, st.dest, [tc |-> tc, st |-> stt])]
            /\ Advance(nb)
            /\ UNCHANGED <<units, fixed, inited>>

\* assert <name>.solver.termination_condition == optimal / <name>.solver.status == ok
DoAssertStatus(nb) ==
    /\ At(nb, "assert_status")
    /\ LET st == Cur(nb) IN
       IF st.name \notin DOMAIN py[nb] THEN Raise(nb, "NameError")
       ELSE IF py[nb][st.name][st.field] # st.lit THEN Raise(nb, "AssertionError")
       ELSE Advance(nb) /\ UNCHANGED <<units, fixed, val, py, inited, solves>>

\* <dest> = <x>
DoAssign(nb) ==
    /\ At(nb, "assign")
    /\ LET st == Cur(nb) IN
       IF EvalError(nb, st.x) # "none" THEN Raise(nb, EvalError(nb, st.x))
       ELSE /\ py' = [py EXCEPT ![nb] = Put(@, st.dest, Eval(nb, st.x))]
            /\ Advance(nb)
            /\ UNCHANGED <<units, fixed, val, inited, solves>>

\* <dest> = <x> * <y>
DoMul(nb) ==
    /\ At(nb, "mul")
    /\ LET st == Cur(nb) IN
       IF EvalError(nb, st.x) # "none" THEN Raise(nb, EvalError(nb, st.x))
       ELSE IF EvalError(nb, st.y) # "none" THEN Raise(nb, EvalError(nb, st.y))
       ELSE /\ py' = [py EXCEPT ![nb] = Put(@, st.dest, RMul(Eval(nb, st.x), Eval(nb, st.y)))]
            /\ Advance(nb)
            /\ UNCHANGED <<units, fixed, val, inited, solves>>

TermErrors(nb, terms) ==
    {EvalError(nb, terms[i]) : i \in DOMAIN terms} \ {"none"}

\* terms[1] - terms[2] - ...
Difference(nb, terms) ==
    LET vs == [i \in DOMAIN terms |-> Eval(nb, terms[i])] IN
    IF Len(vs) = 1 THEN vs[1] ELSE RSub(vs[1], RSum(Tail(vs)))

\* assert <terms> == pytest.approx(e, abs=tol); a value the property package
\* computed may or may not lie within the tolerance
DoAssertApprox(nb) ==
    /\ At(nb, "assert_approx")
    /\ LET st == Cur(nb) IN
       IF TermErrors(nb, st.terms) # {}
       THEN Raise(nb, CHOOSE e \in TermErrors(nb, st.terms) : TRUE)
       ELSE LET v == Difference(nb, st.terms)
                pass == Advance(nb) /\ UNCHANGED <<units, fixed, val, py, inited, solves>> IN
            CASE IsNum(v) -> IF Approx(v, st.e, st.tol) THEN pass
                             ELSE Raise(nb, "AssertionError")
              [] v.k = "ext" -> pass \/ Raise(nb, "AssertionError")
              [] OTHER -> Raise(nb, "AssertionError")

\* m.fs.<unit>.report()
DoReport(nb) ==
    /\ At(nb, "report")
    /\ IF TargetUnits(nb, Cur(nb).unit) = {} THEN Raise(nb, "AttributeError")
       ELSE Advance(nb) /\ UNCHANGED <<units, fixed, val, py, inited, solves>>

ConstructCell == \E nb \in Notebooks : DoConstruct(nb)
DofCall == \E nb \in Notebooks : DoDof(nb)
AssertEqCell == \E nb \in Notebooks : DoAssertEq(nb)
FixCall == \E nb \in Notebooks : DoFix(nb)
UnfixCall == \E nb \in Notebooks : DoUnfix(nb)
InitializeCall == \E nb \in Notebooks : DoInitialize(nb)
SolveCall == \E nb \in Notebooks : DoSolve(nb)
AssertStatusCell == \E nb \in Notebooks : DoAssertStatus(nb)
AssignStmt == \E nb \in Notebooks : DoAssign(nb)
MulStmt == \E nb \in Notebooks : DoMul(nb)
AssertApproxCell == \E nb \in Notebooks : DoAssertApprox(nb)
ReportCall == \E nb \in Notebooks : DoReport(nb)

Next ==
    \/ ConstructCell
    \/ DofCall
    \/ AssertEqCell
    \/ FixCall
    \/ UnfixCall
    \/ InitializeCall
    \/ SolveCall
    \/ AssertStatusCell
    \/ AssignStmt
    \/ MulStmt
    \/ AssertApproxCell
    \/ ReportCall

Spec == Init /\ [][Next]_vars

-----------------------------------------------------------------------------
(* Positions in the notebooks and helpers of the properties.               *)

\* number of statements before each cell
BeforeMCase1Fix == Len(MCase1Construct \o MCase1AssertInit)
BeforeMCase1Check ==
    Len(MCase1Construct \o MCase1AssertInit \o MCase1Fix \o MCase1AssertFinal
        \o MCase1Initialize \o MCase1Solve \o MCase1AssertStatus \o MCase1Report
        \o MCase1Energy)
BeforeMCase2Fix == Len(MixerCase1 \o MCase2Construct \o MCase2Dof \o MCase2AssertInit)
BeforeHShellFix == Len(HConstruct \o HAssertInit)
BeforeHTubeFix == BeforeHShellFix + Len(HShellFix)
BeforeHOption1Fix == BeforeHTubeFix + Len(HTubeFix)
BeforeHOption2Fix ==
    BeforeHOption1Fix + Len(HOption1Fix \o HAssertFinal \o HOption1Solve \o HOption1Check)

\* fix() calls among the first n statements of a cell
FixCount(cell, n) == Cardinality({i \in 1..n : i <= Len(cell) /\ cell[i].op = "fix"})

Ok(nb) == halt[nb] = "none"
Finished(nb) == Ok(nb) /\ pc[nb] = Len(Program(nb)) + 1

MixerVal(u, b, v, i) == val["mixer"][<<u, b, v, i>>]
Built(nb, name) == \E u \in units[nb] : u.name = name

\* the latest solve of the notebook that covered the unit, <<>> when none did
SolvesOf(nb, name) ==
    SelectSeq(solves[nb], LAMBDA r : name \in r.units)
SolvedOk(nb, name) ==
    /\ SolvesOf(nb, name) # <<>>
    /\ Converged(SolvesOf(nb, name)[Len(SolvesOf(nb, name))])

-----------------------------------------------------------------------------
(* Properties.                                                             *)

\* C1: mixer case 1 (num_inlets=2, minimize): degrees_of_freedom(m) is 10 right
\* after construction, every one of the ten fix() calls of the inlet cell lowers
\* it by exactly one, and it is 0 after all ten.
C1_Case1DofCountdown ==
    Ok("mixer") =>
      /\ pc["mixer"] \in 2..(BeforeMCase1Fix + 1) => DegreesOfFreedom("mixer", "m") = 10
      /\ \A j \in 1..(Len(MCase1Fix) + 1) :
            pc["mixer"] = BeforeMCase1Fix + j =>
               DegreesOfFreedom("mixer", "m") = 10 - FixCount(MCase1Fix, j - 1)
      /\ pc["mixer"] = BeforeMCase1Fix + Len(MCase1Fix) =>
            /\ FixCount(MCase1Fix, Len(MCase1Fix)) = 10
            /\ DegreesOfFreedom("mixer", "m") = 0
      /\ pc["mixer"] = BeforeMCase1Fix + Len(MCase1Fix) + 1 => py["mixer"]["DOF_final"] = 0

C1_Witness ==
    /\ Ok("mixer")
    /\ pc["mixer"] = BeforeMCase1Fix + Len(MCase1Fix) + 1
    /\ py["mixer"]["DOF_initial"] = 10
    /\ py["mixer"]["DOF_final"] = 0
    /\ Cardinality(fixed["mixer"]) = 10

\* C2: mixer case 2 (inlet_list, equality): degrees_of_freedom(m.fs.mixer_2) is 9,
\* one fewer than the unit of case 1 has, every one of the nine fix() calls lowers
\* it by one to 0, and the only pressure fixed is that of benzene_inlet.
C2_Case2DofCountdown ==
    Ok("mixer") /\ Built("mixer", "mixer_2") =>
      /\ \A u1, u2 \in units["mixer"] :
            u1.name = "mixer_1" /\ u2.name = "mixer_2" =>
               Cardinality(UnitVars(u2)) - Cardinality(UnitCons(u2))
                 = Cardinality(UnitVars(u1)) - Cardinality(UnitCons(u1)) - 1
      /\ pc["mixer"] <= BeforeMCase2Fix + 1 => DegreesOfFreedom("mixer", "mixer_2") = 9
      /\ \A j \in 1..(Len(MCase2Fix) + 1) :
            pc["mixer"] = BeforeMCase2Fix + j =>
               DegreesOfFreedom("mixer", "mixer_2") = 9 - FixCount(MCase2Fix, j - 1)
      /\ pc["mixer"] >= BeforeMCase2Fix + Len(MCase2Fix) =>
            /\ DegreesOfFreedom("mixer", "mixer_2") = 0
            /\ {id \in fixed["mixer"] : id[1] = "mixer_2" /\ id[3] = "pressure"}
                 = {<<"mixer_2", "benzene_inlet_state", "pressure", "">>}
      /\ pc["mixer"] > BeforeMCase2Fix + Len(MCase2Fix) => py["mixer"]["DOF_final"] = 0

C2_Witness ==
    /\ Ok("mixer")
    /\ pc["mixer"] = BeforeMCase2Fix + Len(MCase2Fix) + 1
    /\ py["mixer"]["DOF_init"] = 9
    /\ py["mixer"]["DOF_final"] = 0
    /\ Cardinality({id \in fixed["mixer"] : id[1] = "mixer_2"}) = 9

\* C3: with momentum mixing "minimize", after a converged solve the outlet
\* pressure of mixer_1 is the minimum of its inlet pressures, 101325 Pa, and the
\* inlet pressures still have the values they were fixed at (101325, 202650).
C3_MinimizeOutletPressure ==
    SolvedOk("mixer", "mixer_1") =>
      /\ MixerVal("mixer_1", "inlet_1_state", "pressure", "") = Whole(101325)
      /\ MixerVal("mixer_1", "inlet_2_state", "pressure", "") = Whole(202650)
      /\ MixerVal("mixer_1", "mixed_state", "pressure", "")
           = RMin(MixerVal("mixer_1", "inlet_1_state", "pressure", ""),
                  MixerVal("mixer_1", "inlet_2_state", "pressure", ""))
      /\ MixerVal("mixer_1", "mixed_state", "pressure", "") = Whole(101325)

C3_Witness ==
    /\ Ok("mixer")
    /\ pc["mixer"] = BeforeMCase1Check + 6
    /\ SolvedOk("mixer", "mixer_1")
    /\ MixerVal("mixer_1", "mixed_state", "pressure", "") = Whole(101325)

\* C4: with momentum mixing "equality", after a converged solve the outlet and
\* both inlets of mixer_2 have the same pressure: only benzene_inlet's pressure is
\* fixed (101325 Pa), toluene_inlet's and the outlet's are solved to 101325 Pa.
C4_EqualityPressures ==
    SolvedOk("mixer", "mixer_2") =>
      /\ <<"mixer_2", "toluene_inlet_state", "pressure", "">> \notin fixed["mixer"]
      /\ <<"mixer_2", "mixed_state", "pressure", "">> \notin fixed["mixer"]
      /\ MixerVal("mixer_2", "benzene_inlet_state", "pressure", "") = Whole(101325)
      /\ MixerVal("mixer_2", "toluene_inlet_state", "pressure", "") = Whole(101325)
      /\ MixerVal("mixer_2", "mixed_state", "pressure", "") = Whole(101325)

C4_Witness ==
    /\ Finished("mixer")
    /\ SolvedOk("mixer", "mixer_2")
    /\ MixerVal("mixer_2", "toluene_inlet_state", "pressure", "") = Whole(101325)

\* C5: material balance in both cases: after a converged solve the outlet flow of
\* each component is the sum of the inlet flows of that component; 100 mol/s of
\* benzene and 100 mol/s of toluene give 200 mol/s at mole fractions 1/2 and 1/2.
C5_MaterialBalance ==
    \A u \in units["mixer"] :
       SolvedOk("mixer", u.name) =>
         /\ MixerVal(u.name, "mixed_state", "flow_mol", "") = Whole(200)
         /\ \A c \in Components :
              /\ MixerVal(u.name, "mixed_state", "mole_frac_comp", c) = Num(1, 2)
              /\ RMul(MixerVal(u.name, "mixed_state", "flow_mol", ""),
                      MixerVal(u.name, "mixed_state", "mole_frac_comp", c))
                   = RSum([i \in DOMAIN u.inlets |->
                             RMul(MixerVal(u.name, u.inlets[i] \o "_state", "flow_mol", ""),
                                  MixerVal(u.name, u.inlets[i] \o "_state",
                                           "mole_frac_comp", c))])
              /\ RMul(MixerVal(u.name, "mixed_state", "flow_mol", ""),
                      MixerVal(u.name, "mixed_state", "mole_frac_comp", c)) = Whole(100)

C5_Witness ==
    /\ Finished("mixer")
    /\ \A name \in {"mixer_1", "mixer_2"} :
          /\ SolvedOk("mixer", name)
          /\ MixerVal(name, "mixed_state", "flow_mol", "") = Whole(200)
          /\ MixerVal(name, "mixed_state", "mole_frac_comp", "benzene") = Num(1, 2)


\* C6: after every call to opt.solve, the termination condition and the status of
\* that same call are asserted before any solved value is asserted: whenever a
\* notebook stands at an assertion on solved values, its latest solve ended
\* optimal and ok.
C6_StatusAssertedBeforeValues ==
    \A nb \in Notebooks :
       At(nb, "assert_approx") /\ solves[nb] # <<>> =>
          Converged(solves[nb][Len(solves[nb])])

HxArea == <<"heat_exchanger", "", "area", "">>
HxU == <<"heat_exchanger", "", "overall_heat_transfer_coefficient", "">>
HxApproach ==
    {<<"heat_exchanger", "", "delta_temperature_in", "">>,
     <<"heat_exchanger", "", "delta_temperature_out", "">>}
HxShellOutEnth == <<"heat_exchanger", "shell.properties_out", "enth_mol", "">>
HxShellIn ==
    {<<"heat_exchanger", "shell.properties_in", v, "">> :
        v \in {"flow_mol", "pressure", "enth_mol"}}
HxTubeIn ==
    {<<"heat_exchanger", "tube.properties_in", v, "">> :
        v \in {"flow_mol", "pressure", "temperature"}}
    \cup {<<"heat_exchanger", "tube.properties_in", "mole_frac_comp", c>> : c \in Components}

\* C7: heat exchanger: degrees_of_freedom(m) is 10 after construction; the three
\* shell inlet fixes, the five tube inlet fixes and the fixes of area and overall
\* heat transfer coefficient lower it by one each, to 7, to 2 and to 0.
C7_HxDofCountdown ==
    Ok("hx") =>
      /\ pc["hx"] \in 2..(BeforeHShellFix + 1) => DegreesOfFreedom("hx", "m") = 10
      /\ \A j \in 1..(Len(HShellFix) + 1) :
            pc["hx"] = BeforeHShellFix + j =>
               DegreesOfFreedom("hx", "m") = 10 - FixCount(HShellFix, j - 1)
      /\ pc["hx"] = BeforeHTubeFix + 1 =>
            /\ DegreesOfFreedom("hx", "m") = 7
            /\ py["hx"]["DOF_initial"] = 7
            /\ fixed["hx"] = HxShellIn
      /\ \A j \in 1..(Len(HTubeFix) + 1) :
            pc["hx"] = BeforeHTubeFix + j =>
               DegreesOfFreedom("hx", "m") = 7 - FixCount(HTubeFix, j - 1)
      /\ pc["hx"] = BeforeHOption1Fix + 1 =>
            /\ DegreesOfFreedom("hx", "m") = 2
            /\ py["hx"]["DOF_final"] = 2
            /\ fixed["hx"] = HxShellIn \cup HxTubeIn
      /\ \A j \in 1..(Len(HOption1Fix) + 1) :
            pc["hx"] = BeforeHOption1Fix + j =>
               DegreesOfFreedom("hx", "m") = 2 - FixCount(HOption1Fix, j - 1)
      /\ pc["hx"] = BeforeHOption1Fix + Len(HOption1Fix) + 1 =>
            /\ DegreesOfFreedom("hx", "m") = 0
            /\ py["hx"]["DOF_final"] = 0
            /\ fixed["hx"] = HxShellIn \cup HxTubeIn \cup {HxArea, HxU}

C7_Witness ==
    /\ Ok("hx")
    /\ pc["hx"] = BeforeHOption1Fix + Len(HOption1Fix) + 1
    /\ py["hx"]["DOF_initial"] = 7
    /\ py["hx"]["DOF_final"] = 0
    /\ Cardinality(fixed["hx"]) = 10

\* what is fixed besides the two inlets
HxDesignFixed == fixed["hx"] \ (HxShellIn \cup HxTubeIn)

C10_InletNaming ==
    /\ \A nb \in Notebooks : halt[nb] \notin {"AttributeError", "NameError"}
    /\ \A u \in units["mixer"] :
          /\ u.name = "mixer_1" => Ports(u) = {"inlet_1", "inlet_2", "outlet"}
          /\ u.name = "mixer_2" => Ports(u) = {"benzene_inlet", "toluene_inlet", "outlet"}
          /\ Ports(u) \ Range(u.inlets) = {"outlet"}
          /\ Cardinality(Ports(u)) = Len(u.inlets) + 1
    /\ \A id \in fixed["mixer"] :
          \E u \in units["mixer"] : \E p \in Range(u.inlets) :
             /\ id[1] = u.name
             /\ id[2] = PortBlock(u, p)
             /\ <<id[3], id[4]>> \in StateVars(u, id[2])

C10_Witness ==
    /\ Ok("mixer")
    /\ pc["mixer"] = BeforeMCase2Fix + Len(MCase2Fix) + 1
    /\ Cardinality(fixed["mixer"]) = 19
    /\ \E u \in units["mixer"] : Range(u.inlets) = {"inlet_1", "inlet_2"}
    /\ \E u \in units["mixer"] : Range(u.inlets) = {"benzene_inlet", "toluene_inlet"}

HxVal(id) == val["hx"][id]

\* the values the inlet cells and option 1 fixed
HxInletValuesKept ==
    /\ HxVal(<<"heat_exchanger", "shell.properties_in", "flow_mol", "">>) = Whole(100)
    /\ HxVal(<<"heat_exchanger", "shell.properties_in", "pressure", "">>) = Whole(101325)
    /\ HxVal(<<"heat_exchanger", "shell.properties_in", "enth_mol", "">>) = Htpx(450, 101325)
    /\ HxVal(<<"heat_exchanger", "tube.properties_in", "flow_mol", "">>) = Whole(250)
    /\ HxVal(<<"heat_exchanger", "tube.properties_in", "mole_frac_comp", "benzene">>)
         = Num(4, 10)
    /\ HxVal(<<"heat_exchanger", "tube.properties_in", "mole_frac_comp", "toluene">>)
         = Num(6, 10)
    /\ HxVal(<<"heat_exchanger", "tube.properties_in", "pressure", "">>) = Whole(101325)
    /\ HxVal(<<"heat_exchanger", "tube.properties_in", "temperature", "">>) = Whole(350)

\* C12: heat exchanger option 2: unfixing area and fixing shell_outlet.enth_mol swaps
\* one free variable for another (1 degree of freedom in between, 0 when the second
\* solve runs); every inlet fix and the fix of the overall heat transfer coefficient
\* at 500 stay as the first solve saw them, through the swap and the second solve;
\* area is the only variable fixed at the first solve that is free at the second.
C12_Option2Swap ==
    pc["hx"] > BeforeHOption2Fix =>
      /\ solves["hx"] # <<>>
      /\ LET prev == solves["hx"][1].fixed IN
         /\ prev = HxShellIn \cup HxTubeIn \cup {HxArea, HxU}
         /\ prev \ {HxArea} \subseteq fixed["hx"]
         /\ HxInletValuesKept
         /\ HxVal(HxU) = Whole(500)
         /\ pc["hx"] = BeforeHOption2Fix + 2 =>
               /\ fixed["hx"] = prev \ {HxArea}
               /\ DegreesOfFreedom("hx", "m") = 1
         /\ pc["hx"] >= BeforeHOption2Fix + 3 =>
               /\ prev \ fixed["hx"] = {HxArea}
               /\ fixed["hx"] \ prev = {HxShellOutEnth}
               /\ DegreesOfFreedom("hx", "m") = 0
         /\ Len(solves["hx"]) >= 2 =>
               /\ solves["hx"][2].dof = 0
               /\ solves["hx"][2].fixed = (prev \ {HxArea}) \cup {HxShellOutEnth}

C12_Witness ==
    /\ Ok("hx")
    /\ Len(solves["hx"]) = 2
    /\ solves["hx"][2].dof = 0
    /\ HxArea \in solves["hx"][1].fixed
    /\ HxArea \notin fixed["hx"]
    /\ HxVal(HxArea) = Ext
    /\ HxVal(HxU) = Whole(500)

IsAssertOnSolve(st) == st.op \in {"assert_status", "assert_approx"}

\* positions of the assertions that follow the solve at position s, up to the
\* next solve
AssertsAfter(nb, s) ==
    {j \in (s + 1)..Len(Program(nb)) :
        /\ IsAssertOnSolve(Program(nb)[j])
        /\ \A i \in (s + 1)..(j - 1) : Program(nb)[i].op # "solve"}

AtFixOrUnfix(nb) == At(nb, "fix") \/ At(nb, "unfix")

\* every solve ran on a model with 0 degrees of freedom whose units had been
\* initialized, and the next one will
SolveReady(nb) ==
    /\ \A i \in DOMAIN solves[nb] : solves[nb][i].dof = 0 /\ solves[nb][i].ready
    /\ At(nb, "solve") =>
          /\ DegreesOfFreedom(nb, Cur(nb).target) = 0
          /\ TargetUnits(nb, Cur(nb).target) # {}
          /\ {u.name : u \in TargetUnits(nb, Cur(nb).target)} \subseteq inited[nb]

\* no fix() or unfix() stands between a solve and the assertions that follow it
NoFixBeforeAsserts(nb) ==
    AtFixOrUnfix(nb) /\ solves[nb] # <<>> =>
       \A j \in AssertsAfter(nb, solves[nb][Len(solves[nb])].at) : j < pc[nb]

\* a unit is fixed before it is initialized, initialized before it is solved, and
\* values are asserted only after a solve
PhaseOrder(nb) ==
    /\ AtFixOrUnfix(nb) =>
          /\ Built(nb, Cur(nb).x.unit)
          /\ Cur(nb).x.unit \notin inited[nb]
          /\ SolvesOf(nb, Cur(nb).x.unit) = <<>>
    /\ At(nb, "initialize") =>
          /\ Built(nb, Cur(nb).unit)
          /\ SolvesOf(nb, Cur(nb).unit) = <<>>
    /\ At(nb, "assert_approx") => solves[nb] # <<>>

\* C13 as stated: in every scenario of both notebooks the order is construct, fix,
\* initialize, solve, assert; every solve is reached with 0 degrees of freedom and
\* its unit initialized; nothing is fixed or unfixed between a solve and the
\* assertions on it.
C13_ConstructFixInitSolveAssert ==
    \A nb \in Notebooks : PhaseOrder(nb) /\ SolveReady(nb) /\ NoFixBeforeAsserts(nb)

\* C13 amended: the order construct, fix, initialize, solve, assert holds for mixer
\* case 1, mixer case 2 and heat exchanger option 1; option 2 unfixes and fixes on
\* the unit that option 1 initialized and solved, then solves and asserts. Every
\* solve is reached with 0 degrees of freedom and its unit initialized, and nothing
\* is fixed or unfixed between a solve and the assertions that follow it.
C13_OrderExceptOption2 ==
    /\ PhaseOrder("mixer")
    /\ pc["hx"] <= BeforeHOption2Fix => PhaseOrder("hx")
    /\ pc["hx"] > BeforeHOption2Fix =>
          /\ AtFixOrUnfix("hx") =>
                /\ Cur("hx").x.unit \in inited["hx"]
                /\ Len(SolvesOf("hx", Cur("hx").x.unit)) = 1
          /\ ~At("hx", "initialize")
          /\ ~At("hx", "construct")
          /\ At("hx", "assert_approx") => Len(solves["hx"]) = 2
    /\ \A nb \in Notebooks : SolveReady(nb) /\ NoFixBeforeAsserts(nb)

C13_Witness ==
    /\ Finished("mixer")
    /\ Finished("hx")
    /\ Len(solves["mixer"]) = 2
    /\ Len(solves["hx"]) = 2
    /\ \A nb \in Notebooks : \A i \in 1..2 : solves[nb][i].dof = 0 /\ solves[nb][i].ready
    /\ solves["hx"][2].fixed # solves["hx"][1].fixed

====
